---- MODULE Spec2Model ----
\* A model of the LS-8 style emulator in src/cpu.py: the CPU object (ram, reg,
\* pc, ir, fl, working), its load() and run() operations and the thirteen
\* instruction handlers.  Values are Python integers (no width), list indices
\* follow Python's rules (a negative index counts from the end, an index
\* outside the list raises IndexError).
EXTENDS Integers, Sequences, FiniteSets, TLC

\* ---------------------------------------------------------------------------
\* Bounds of the model
\* ---------------------------------------------------------------------------
\* Largest absolute value a register may reach before the model stops the run
\* (Python integers are unbounded).
MaxVal == 600
\* Largest number of values PRN may have printed before the model stops the run.
MaxOut == 2
\* Number of instructions of a generated program body.
MaxBody == 2
\* Largest distance of the stack pointer from the two places the programs put
\* it, the initial top of the stack and address 0, before the model stops the
\* run (a loop that pushes moves it one cell per iteration).
MaxDrift == 16

\* ---------------------------------------------------------------------------
\* Program constants
\* ---------------------------------------------------------------------------
RamSize == 256
NumRegs == 8
sp == 7
StackStart == 244

OP_LDI == 130
OP_HLT == 1
OP_PRN == 71
OP_MUL == 162
OP_ADD == 160
OP_PUSH == 69
OP_POP == 70
OP_CALL == 80
OP_RET == 17
OP_CMP == 167
OP_JEQ == 85
OP_JNE == 86
OP_JMP == 84

FL_E == 1
FL_G == 2
FL_L == 4

\* The dispatch table: opcode -> name of the bound handler.
instruction_table ==
    (OP_LDI :> "LDI") @@ (OP_HLT :> "HLT") @@ (OP_PRN :> "PRN") @@
    (OP_MUL :> "MUL") @@ (OP_ADD :> "ADD") @@ (OP_PUSH :> "PUSH") @@
    (OP_POP :> "POP") @@ (OP_CALL :> "CALL") @@ (OP_RET :> "RET") @@
    (OP_CMP :> "CMP") @@ (OP_JEQ :> "JEQ") @@ (OP_JNE :> "JNE") @@
    (OP_JMP :> "JMP")

\* ---------------------------------------------------------------------------
\* Python list indexing and exceptions
\* ---------------------------------------------------------------------------
\* lst[i] is defined for -len <= i < len; a negative i counts from the end.
ValidIdx(i, n) == i >= -n /\ i < n
Norm(i, n) == IF i < 0 THEN i + n ELSE i

NoExc == [type |-> "none", text |-> "", arg |-> <<>>]
\* The message of an IndexError differs between a read and an assignment; the
\* model keeps the type only.
IndexError == [type |-> "IndexError", text |-> "", arg |-> <<>>]

Raise(s, e) == [s EXCEPT !.exc = e]

\* format(n, "08b"): binary digits, sign first, zero padded to width 8.
RECURSIVE Bits(_)
Bits(n) == IF n < 2 THEN <<IF n = 0 THEN "0" ELSE "1">>
           ELSE Bits(n \div 2) \o <<IF n % 2 = 0 THEN "0" ELSE "1">>

\* Mutant: format(n, "b"), the padding forgotten.
Format_b(n) ==
    (IF n < 0 THEN <<"-">> ELSE <<>>) \o Bits(IF n < 0 THEN -n ELSE n)

Format08b(n) ==
    LET sign == IF n < 0 THEN <<"-">> ELSE <<>>
        digits == Bits(IF n < 0 THEN -n ELSE n)
        pad == 8 - Len(sign) - Len(digits)
    IN sign \o [i \in 1..(IF pad > 0 THEN pad ELSE 0) |-> "0"] \o digits

\* ---------------------------------------------------------------------------
\* Accessors (on a CPU state record s)
\* ---------------------------------------------------------------------------
ram_read(s, address) == s.ram[Norm(address, RamSize)]

\* ---------------------------------------------------------------------------
\* ALU
\* ---------------------------------------------------------------------------
\* Mutant: CMP adds its flag to those already set.
alu_orflags(op, s, reg_a, reg_b) ==
    IF op \notin {"ADD", "MUL", "CMP"}
    THEN Raise(s, [type |-> "Exception", text |-> "Unsupported ALU operation", arg |-> <<>>])
    ELSE IF ~ValidIdx(reg_a, NumRegs) \/ ~ValidIdx(reg_b, NumRegs) THEN Raise(s, IndexError)
    ELSE LET a == s.reg[Norm(reg_a, NumRegs)]
             b == s.reg[Norm(reg_b, NumRegs)]
             f == IF a > b THEN FL_G ELSE IF a < b THEN FL_L ELSE FL_E
         IN CASE op = "ADD" -> [s EXCEPT !.reg[Norm(reg_a, NumRegs)] = a + b]
              [] op = "MUL" -> [s EXCEPT !.reg[Norm(reg_a, NumRegs)] = a * b]
              [] op = "CMP" -> [s EXCEPT !.fl = IF (s.fl \div f) % 2 = 1 THEN s.fl
                                                ELSE s.fl + f]

\* Mutant: the greater and the less flag exchanged.
alu_swapped(op, s, reg_a, reg_b) ==
    IF op \notin {"ADD", "MUL", "CMP"}
    THEN Raise(s, [type |-> "Exception", text |-> "Unsupported ALU operation", arg |-> <<>>])
    ELSE IF ~ValidIdx(reg_a, NumRegs) \/ ~ValidIdx(reg_b, NumRegs) THEN Raise(s, IndexError)
    ELSE LET a == s.reg[Norm(reg_a, NumRegs)]
             b == s.reg[Norm(reg_b, NumRegs)]
         IN CASE op = "ADD" -> [s EXCEPT !.reg[Norm(reg_a, NumRegs)] = a + b]
              [] op = "MUL" -> [s EXCEPT !.reg[Norm(reg_a, NumRegs)] = a * b]
              [] op = "CMP" -> [s EXCEPT !.fl = IF a > b THEN FL_L
                                                ELSE IF a < b THEN FL_G
                                                ELSE FL_E]

alu(op, s, reg_a, reg_b) ==
    IF op \notin {"ADD", "MUL", "CMP"}
    THEN Raise(s, [type |-> "Exception", text |-> "Unsupported ALU operation", arg |-> <<>>])
    ELSE IF ~ValidIdx(reg_a, NumRegs) \/ ~ValidIdx(reg_b, NumRegs) THEN Raise(s, IndexError)
    ELSE LET a == s.reg[Norm(reg_a, NumRegs)]
             b == s.reg[Norm(reg_b, NumRegs)]
         IN CASE op = "ADD" -> [s EXCEPT !.reg[Norm(reg_a, NumRegs)] = a + b]
              [] op = "MUL" -> [s EXCEPT !.reg[Norm(reg_a, NumRegs)] = a * b]
              [] op = "CMP" -> [s EXCEPT !.fl = IF a > b THEN FL_G
                                                ELSE IF a < b THEN FL_L
                                                ELSE FL_E]

\* ---------------------------------------------------------------------------
\* Instruction handlers
\* ---------------------------------------------------------------------------
CMP(s) ==
    IF ~ValidIdx(s.pc + 1, RamSize) \/ ~ValidIdx(s.pc + 2, RamSize) THEN Raise(s, IndexError)
    ELSE alu("CMP", s, ram_read(s, s.pc + 1), ram_read(s, s.pc + 2))

JMP(s) ==
    IF ~ValidIdx(s.pc + 1, RamSize) THEN Raise(s, IndexError)
    ELSE LET r == ram_read(s, s.pc + 1)
         IN IF ~ValidIdx(r, NumRegs) THEN Raise(s, IndexError)
            ELSE [s EXCEPT !.pc = s.reg[Norm(r, NumRegs)]]

\* Mutant: the test of JEQ inverted.
JEQ_inverted(s) ==
    IF (s.fl \div 2) # 0 THEN JMP(s) ELSE [s EXCEPT !.pc = s.pc + 2]

\* if not self.fl >> 1: the shift binds tighter than "not".
JEQ(s) ==
    IF (s.fl \div 2) = 0 THEN JMP(s) ELSE [s EXCEPT !.pc = s.pc + 2]

\* Mutant: the flags consumed by the test.
JNE_clearsflags(s) ==
    IF (s.fl \div 2) # 0 THEN JMP([s EXCEPT !.fl = 0]) ELSE [s EXCEPT !.pc = s.pc + 2, !.fl = 0]

JNE(s) ==
    IF (s.fl \div 2) # 0 THEN JMP(s) ELSE [s EXCEPT !.pc = s.pc + 2]

\* Mutant: the address of the operand saved as the return address.
CALL_wrongret(s) ==
    LET s1 == [s EXCEPT !.pc = s.pc + 1]
        s2 == [s1 EXCEPT !.reg[sp] = s1.reg[sp] - 1]
    IN IF ~ValidIdx(s2.reg[sp], RamSize) THEN Raise(s2, IndexError)
       ELSE LET s3 == [s2 EXCEPT !.ram[Norm(s2.reg[sp], RamSize)] = s2.pc]
            IN IF ~ValidIdx(s3.pc, RamSize) THEN Raise(s3, IndexError)
               ELSE LET r == ram_read(s3, s3.pc)
                    IN IF ~ValidIdx(r, NumRegs) THEN Raise(s3, IndexError)
                       ELSE [s3 EXCEPT !.pc = s3.reg[Norm(r, NumRegs)]]

CALL(s) ==
    LET s1 == [s EXCEPT !.pc = s.pc + 1]
        s2 == [s1 EXCEPT !.reg[sp] = s1.reg[sp] - 1]
    IN IF ~ValidIdx(s2.reg[sp], RamSize) THEN Raise(s2, IndexError)
       ELSE LET s3 == [s2 EXCEPT !.ram[Norm(s2.reg[sp], RamSize)] = s2.pc + 1]
            IN IF ~ValidIdx(s3.pc, RamSize) THEN Raise(s3, IndexError)
               ELSE LET r == ram_read(s3, s3.pc)
                    IN IF ~ValidIdx(r, NumRegs) THEN Raise(s3, IndexError)
                       ELSE [s3 EXCEPT !.pc = s3.reg[Norm(r, NumRegs)]]

RET(s) ==
    IF ~ValidIdx(s.reg[sp], RamSize) THEN Raise(s, IndexError)
    ELSE LET next_address == ram_read(s, s.reg[sp])
         IN [s EXCEPT !.reg[sp] = s.reg[sp] + 1, !.pc = next_address]

\* Mutant: the value stored before the stack pointer moves.
PUSH_postdec(s) ==
    IF ~ValidIdx(s.pc + 1, RamSize) THEN Raise(s, IndexError)
    ELSE LET address == ram_read(s, s.pc + 1)
         IN IF ~ValidIdx(address, NumRegs) THEN Raise(s, IndexError)
            ELSE LET data == s.reg[Norm(address, NumRegs)]
                 IN IF ~ValidIdx(s.reg[sp], RamSize) THEN Raise(s, IndexError)
                    ELSE [s EXCEPT !.ram[Norm(s.reg[sp], RamSize)] = data,
                                   !.reg[sp] = s.reg[sp] - 1]

PUSH(s) ==
    LET s1 == [s EXCEPT !.reg[sp] = s.reg[sp] - 1]
    IN IF ~ValidIdx(s1.pc + 1, RamSize) THEN Raise(s1, IndexError)
       ELSE LET address == ram_read(s1, s1.pc + 1)
            IN IF ~ValidIdx(address, NumRegs) THEN Raise(s1, IndexError)
               ELSE LET data == s1.reg[Norm(address, NumRegs)]
                    IN IF ~ValidIdx(s1.reg[sp], RamSize) THEN Raise(s1, IndexError)
                       ELSE [s1 EXCEPT !.ram[Norm(s1.reg[sp], RamSize)] = data]

\* Mutant: the stack pointer moved back before the value is read.
POP_preinc(s) ==
    IF ~ValidIdx(s.pc + 1, RamSize) THEN Raise(s, IndexError)
    ELSE LET copy_to == ram_read(s, s.pc + 1)
             s1 == [s EXCEPT !.reg[sp] = s.reg[sp] + 1]
         IN IF ~ValidIdx(s1.reg[sp], RamSize) THEN Raise(s1, IndexError)
            ELSE LET value == ram_read(s1, s1.reg[sp])
                 IN IF ~ValidIdx(copy_to, NumRegs) THEN Raise(s1, IndexError)
                    ELSE [s1 EXCEPT !.reg[Norm(copy_to, NumRegs)] = value]

\* Mutant: the stack pointer not moved back.
POP_noinc(s) ==
    IF ~ValidIdx(s.pc + 1, RamSize) THEN Raise(s, IndexError)
    ELSE LET copy_to == ram_read(s, s.pc + 1)
         IN IF ~ValidIdx(s.reg[sp], RamSize) THEN Raise(s, IndexError)
            ELSE LET value == ram_read(s, s.reg[sp])
                 IN IF ~ValidIdx(copy_to, NumRegs) THEN Raise(s, IndexError)
                    ELSE [s EXCEPT !.reg[Norm(copy_to, NumRegs)] = value]

POP(s) ==
    IF ~ValidIdx(s.pc + 1, RamSize) THEN Raise(s, IndexError)
    ELSE LET copy_to == ram_read(s, s.pc + 1)
         IN IF ~ValidIdx(s.reg[sp], RamSize) THEN Raise(s, IndexError)
            ELSE LET value == ram_read(s, s.reg[sp])
                 IN IF ~ValidIdx(copy_to, NumRegs) THEN Raise(s, IndexError)
                    ELSE LET s1 == [s EXCEPT !.reg[Norm(copy_to, NumRegs)] = value]
                         IN [s1 EXCEPT !.reg[sp] = s1.reg[sp] + 1]

LDI(s) ==
    IF ~ValidIdx(s.pc + 1, RamSize) \/ ~ValidIdx(s.pc + 2, RamSize) THEN Raise(s, IndexError)
    ELSE LET location == ram_read(s, s.pc + 1)
             data == ram_read(s, s.pc + 2)
         IN IF ~ValidIdx(location, NumRegs) THEN Raise(s, IndexError)
            ELSE [s EXCEPT !.reg[Norm(location, NumRegs)] = data]

\* Mutant: HLT also rewinds the program counter.
HLT_rewinds(s) == [s EXCEPT !.working = FALSE, !.pc = -1]

HLT(s) == [s EXCEPT !.working = FALSE]

PRN(s) ==
    IF ~ValidIdx(s.pc + 1, RamSize) THEN Raise(s, IndexError)
    ELSE LET location == ram_read(s, s.pc + 1)
         IN IF ~ValidIdx(location, NumRegs) THEN Raise(s, IndexError)
            ELSE [s EXCEPT !.out = Append(s.out, s.reg[Norm(location, NumRegs)])]

\* Mutant: MUL handed to the ALU as an addition.
MUL_adds(s) ==
    IF ~ValidIdx(s.pc + 1, RamSize) \/ ~ValidIdx(s.pc + 2, RamSize) THEN Raise(s, IndexError)
    ELSE alu("ADD", s, ram_read(s, s.pc + 1), ram_read(s, s.pc + 2))

MUL(s) ==
    IF ~ValidIdx(s.pc + 1, RamSize) \/ ~ValidIdx(s.pc + 2, RamSize) THEN Raise(s, IndexError)
    ELSE alu("MUL", s, ram_read(s, s.pc + 1), ram_read(s, s.pc + 2))

ADD(s) ==
    IF ~ValidIdx(s.pc + 1, RamSize) \/ ~ValidIdx(s.pc + 2, RamSize) THEN Raise(s, IndexError)
    ELSE alu("ADD", s, ram_read(s, s.pc + 1), ram_read(s, s.pc + 2))

\* self.instruction_table[self.ir]()
Dispatch(name, s) ==
    CASE name = "LDI" -> LDI(s)
      [] name = "HLT" -> HLT(s)
      [] name = "PRN" -> PRN(s)
      [] name = "MUL" -> MUL(s)
      [] name = "ADD" -> ADD(s)
      [] name = "PUSH" -> PUSH(s)
      [] name = "POP" -> POP(s)
      [] name = "CALL" -> CALL(s)
      [] name = "RET" -> RET(s)
      [] name = "CMP" -> CMP(s)
      [] name = "JEQ" -> JEQ(s)
      [] name = "JNE" -> JNE(s)
      [] name = "JMP" -> JMP(s)

\* ---------------------------------------------------------------------------
\* State
\* ---------------------------------------------------------------------------
VARIABLES
    ram,        \* self.ram: 256 cells
    pc,         \* self.pc
    ir,         \* self.ir
    reg,        \* self.reg: 8 registers, reg[sp] is the stack pointer
    working,    \* self.working
    fl,         \* self.fl
    out,        \* the values print(data) wrote, in order
    warned,     \* load() printed "The program is too large..."
    exc,        \* the exception that ended load() or run(), NoExc if none
    phase,      \* "constructed", "idle" (loaded, not running), "running",
                \* "load_raised", "run_raised"
    last,       \* history: the loop cycle that ran last
    prev,       \* history: the loop cycle before last
    image,      \* history: the list of bytes the last load() was given
    shadow      \* history: the values pushed and not yet popped, see ShadowStep

vars ==
    <<ram, pc, ir, reg, working, fl, out, warned, exc, phase, last, prev, image, shadow>>

CpuState ==
    [ram |-> ram, pc |-> pc, ir |-> ir, reg |-> reg, working |-> working,
     fl |-> fl, out |-> out, exc |-> exc]

\* Mutant: the bit never found set, so that the loop always advances.
sets_pc_never(i) == 0

\* sets_pc = self.ir >> 4 & 1
sets_pc(i) == (i \div 16) % 2

\* num_operands = self.ir >> 6
num_operands(i) == i \div 64

\* The loop's step after the handler returned.
Advance(h) ==
    IF sets_pc(h.ir) = 0 THEN [h EXCEPT !.pc = h.pc + num_operands(h.ir) + 1] ELSE h

Unsupported(i) ==
    [type |-> "Exception", text |-> "Unsupported operation: ", arg |-> Format08b(i)]

\* Mutant: an unsupported opcode leaves the loop quietly.
LoopBody_break(s) ==
    IF ~ValidIdx(s.pc, RamSize) THEN Raise(s, IndexError)
    ELSE LET s1 == [s EXCEPT !.ir = ram_read(s, s.pc)]
         IN IF s1.ir \in DOMAIN instruction_table
            THEN LET h == Dispatch(instruction_table[s1.ir], s1)
                 IN IF h.exc # NoExc THEN h ELSE Advance(h)
            ELSE [s1 EXCEPT !.working = FALSE]

\* Mutant: an unsupported opcode also switches the CPU off.
LoopBody_stops(s) ==
    IF ~ValidIdx(s.pc, RamSize) THEN Raise(s, IndexError)
    ELSE LET s1 == [s EXCEPT !.ir = ram_read(s, s.pc)]
         IN IF s1.ir \in DOMAIN instruction_table
            THEN LET h == Dispatch(instruction_table[s1.ir], s1)
                 IN IF h.exc # NoExc THEN h ELSE Advance(h)
            ELSE Raise([s1 EXCEPT !.working = FALSE], Unsupported(s1.ir))

\* One iteration of the while loop of run().
LoopBody(s) ==
    IF ~ValidIdx(s.pc, RamSize) THEN Raise(s, IndexError)
    ELSE LET s1 == [s EXCEPT !.ir = ram_read(s, s.pc)]
         IN IF s1.ir \in DOMAIN instruction_table
            THEN LET h == Dispatch(instruction_table[s1.ir], s1)
                 IN IF h.exc # NoExc THEN h ELSE Advance(h)
            ELSE Raise(s1, Unsupported(s1.ir))

\* ---------------------------------------------------------------------------
\* History of the loop: what the last cycle fetched and the state it started in
\* ---------------------------------------------------------------------------
\* A value no memory cell holds: the operand could not be read.
NoOperand == -(MaxVal * RamSize)

NoCycle ==
    [op |-> "none", ir |-> 0, at |-> 0, a |-> NoOperand, b |-> NoOperand,
     reg |-> [i \in 0..(NumRegs - 1) |-> 0], fl |-> 0, hpc |-> 0, ok |-> FALSE]

Operand(s, k) ==
    IF ValidIdx(s.pc + k, RamSize) THEN ram_read(s, s.pc + k) ELSE NoOperand

\* s: state before the cycle, r: state after it.
CycleRecord(s, r) ==
    [op |-> IF ~ValidIdx(s.pc, RamSize) THEN "nofetch"
            ELSE IF r.ir \in DOMAIN instruction_table THEN instruction_table[r.ir]
            ELSE "undecodable",
     ir |-> r.ir, at |-> s.pc, a |-> Operand(s, 1), b |-> Operand(s, 2),
     reg |-> s.reg, fl |-> s.fl,
     hpc |-> IF ValidIdx(s.pc, RamSize) /\ r.ir \in DOMAIN instruction_table
             THEN Dispatch(instruction_table[r.ir], [s EXCEPT !.ir = r.ir]).pc
             ELSE s.pc,
     ok |-> r.exc = NoExc]

\* The stack as a list, kept beside the memory: a PUSH of a register other than
\* R7 appends the register's value, a POP into a register other than R7 removes
\* the last one (popped: the value it removed).  ok turns false for good when
\* something else moves the stack pointer or the list is empty at a POP: a
\* cycle that raises, CALL, RET, or an instruction that writes R7.
NoShadow == [ok |-> FALSE, vals |-> <<>>, popped |-> NoOperand]

ShadowStep(sh, s, r) ==
    LET c == CycleRecord(s, r)
        same == [sh EXCEPT !.popped = NoOperand]
    IN IF ~sh.ok \/ ~c.ok \/ c.op \in {"CALL", "RET", "nofetch", "undecodable"}
       THEN NoShadow
       ELSE CASE c.op = "PUSH" ->
                   IF c.a \in 0..(sp - 1)
                   THEN [same EXCEPT !.vals = Append(sh.vals, s.reg[c.a])]
                   ELSE NoShadow
              [] c.op = "POP" ->
                   IF c.a \in 0..(sp - 1) /\ sh.vals # <<>>
                   THEN [sh EXCEPT !.vals = SubSeq(sh.vals, 1, Len(sh.vals) - 1),
                                   !.popped = sh.vals[Len(sh.vals)]]
                   ELSE NoShadow
              [] c.op \in {"LDI", "ADD", "MUL"} ->
                   IF Norm(c.a, NumRegs) = sp THEN NoShadow ELSE same
              [] OTHER -> same

\* ---------------------------------------------------------------------------
\* Program images
\* ---------------------------------------------------------------------------
\* LDI R0,8; LDI R1,9; MUL R0,R1; PRN R0; HLT
MulProgram == <<OP_LDI, 0, 8, OP_LDI, 1, 9, OP_MUL, 0, 1, OP_PRN, 0, OP_HLT>>

\* LDI R0,6; CALL R0; HLT; RET: a subroutine at address 6, called from address 3.
CallProgram == <<OP_LDI, 0, 6, OP_CALL, 0, OP_HLT, OP_RET>>

\* LDI R0,1; LDI R1,2; CMP R0,R1; PUSH R0; PUSH R1; POP R0; POP R1; CMP R0,R1;
\* HLT: exchanges R0 and R1 through the stack, comparing them before and after.
StackProgram ==
    <<OP_LDI, 0, 1, OP_LDI, 1, 2, OP_CMP, 0, 1, OP_PUSH, 0, OP_PUSH, 1,
      OP_POP, 0, OP_POP, 1, OP_CMP, 0, 1, OP_HLT>>

\* One byte more than the memory holds.
Oversize == [i \in 1..(RamSize + 1) |-> OP_HLT]

\* Generated programs: LDI R0,a; LDI R1,b; then MaxBody instructions.  The body
\* starts at address 6, so that R0 and R1 hold addresses of the body (6 is its
\* first instruction) and compare as equal, less and greater; 200 and 100 add
\* up to more than a byte holds.
Setup(a, b) == <<OP_LDI, 0, a, OP_LDI, 1, b>>
SetupPairs == {<<6, 6>>, <<6, 8>>, <<8, 6>>, <<200, 100>>}

Instrs ==
    { <<OP_HLT>>, <<OP_RET>>,
      <<OP_PRN, 0>>, <<OP_PUSH, 0>>, <<OP_PUSH, 7>>, <<OP_POP, 0>>, <<OP_POP, 7>>,
      <<OP_CALL, 0>>, <<OP_JEQ, 0>>, <<OP_JNE, 0>>, <<OP_JMP, 0>>,
      <<OP_MUL, 0, 1>>, <<OP_ADD, 0, 1>>, <<OP_CMP, 0, 1>>,
      <<OP_LDI, 7, 0>> }

RECURSIVE Bodies(_)
Bodies(n) == IF n = 0 THEN {<<>>}
             ELSE {i \o rest : i \in Instrs, rest \in Bodies(n - 1)}

Programs ==
    {Setup(ab[1], ab[2]) \o body : ab \in SetupPairs, body \in Bodies(MaxBody)}
    \cup {MulProgram, CallProgram, StackProgram, Oversize}

\* ---------------------------------------------------------------------------
\* Operations
\* ---------------------------------------------------------------------------
Init ==
    /\ ram = [i \in 0..(RamSize - 1) |-> 0]
    /\ pc = 0
    /\ ir = 0
    /\ reg = [i \in 0..(NumRegs - 1) |-> IF i = sp THEN StackStart ELSE 0]
    /\ working = FALSE
    /\ fl = 0
    /\ out = <<>>
    /\ warned = FALSE
    /\ exc = NoExc
    /\ phase = "constructed"
    /\ last = NoCycle
    /\ prev = NoCycle
    /\ image = <<>>
    /\ shadow = [ok |-> TRUE, vals |-> <<>>, popped |-> NoOperand]

\* Mutant: load() clears the cells after the program.
LoadCopy_clears(m, program) ==
    [i \in 0..(RamSize - 1) |-> IF i < Len(program) THEN program[i + 1] ELSE 0]

\* The copy loop of load(): for i in range(len(program)): self.ram[i] = program[i]
LoadCopy(m, program) ==
    [i \in 0..(RamSize - 1) |-> IF i < Len(program) THEN program[i + 1] ELSE m[i]]

\* The images load() is called with: any image on the new CPU, and CallProgram
\* over MulProgram, before or after its run.
Loadable ==
    IF phase = "constructed" THEN Programs
    ELSE IF phase = "idle" /\ image = MulProgram THEN {CallProgram}
    ELSE {}

\* load(), from the parsed list of bytes on.
Load(program) ==
    /\ program \in Loadable
    /\ warned' = (warned \/ Len(program) > RamSize)
    /\ ram' = LoadCopy(ram, program)
    /\ image' = program
    /\ IF Len(program) > RamSize
       THEN exc' = IndexError /\ phase' = "load_raised"
       ELSE exc' = NoExc /\ phase' = "idle"
    /\ UNCHANGED <<pc, ir, reg, working, fl, out, last, prev, shadow>>

\* run() up to the first test of the while loop.
Run ==
    /\ phase \in {"constructed", "idle"}
    /\ working' = TRUE
    /\ phase' = "running"
    /\ UNCHANGED <<ram, pc, ir, reg, fl, out, warned, exc, last, prev, image, shadow>>

Bounded(r) ==
    /\ \A i \in 0..(NumRegs - 1) : r.reg[i] <= MaxVal /\ r.reg[i] >= -MaxVal
    /\ Len(r.out) <= MaxOut
    /\ \/ r.reg[sp] >= StackStart - MaxDrift /\ r.reg[sp] <= StackStart + MaxDrift
       \/ r.reg[sp] >= -MaxDrift /\ r.reg[sp] <= MaxDrift

\* One cycle of the while loop, and the loop test that follows it.
Cycle ==
    /\ phase = "running"
    /\ LET s == CpuState
           r == LoopBody(s)
       IN /\ Bounded(r)
          /\ ram' = r.ram
          /\ pc' = r.pc
          /\ ir' = r.ir
          /\ reg' = r.reg
          /\ working' = r.working
          /\ fl' = r.fl
          /\ out' = r.out
          /\ exc' = r.exc
          /\ phase' = IF r.exc # NoExc THEN "run_raised"
                      ELSE IF r.working THEN "running" ELSE "idle"
          /\ last' = CycleRecord(s, r)
          /\ prev' = last
          /\ shadow' = ShadowStep(shadow, s, r)
          /\ UNCHANGED <<warned, image>>

Next ==
    \/ \E program \in Loadable : Load(program)
    \/ Run
    \/ Cycle

Spec == Init /\ [][Next]_vars

\* ---------------------------------------------------------------------------
\* Vocabulary of the properties
\* ---------------------------------------------------------------------------
\* The operand counts and the "sets pc" column of the instruction table, as
\* the documentation of the instruction set lists them.
OperandCount ==
    [LDI |-> 2, HLT |-> 0, PRN |-> 1, MUL |-> 2, ADD |-> 2, PUSH |-> 1, POP |-> 1,
     CALL |-> 1, RET |-> 0, CMP |-> 2, JEQ |-> 1, JNE |-> 1, JMP |-> 1]
PcSetters == {"CALL", "RET", "JEQ", "JNE", "JMP"}
Mnemonics == DOMAIN OperandCount

\* Register[i] of a register file, i an operand byte.
RegAt(regs, i) == regs[Norm(i, NumRegs)]

\* The last two cycles both returned from their handlers, and nothing raised since.
LastDone == last.ok /\ last.op \in Mnemonics /\ phase \in {"running", "idle"}
LastTwoDone == LastDone /\ prev.ok /\ prev.op \in Mnemonics

\* int(text, 2)
RECURSIVE ParseBin(_)
ParseBin(text) ==
    IF text = <<>> THEN 0
    ELSE IF Head(text) = "-" THEN -ParseBin(Tail(text))
    ELSE 2 * ParseBin(SubSeq(text, 1, Len(text) - 1))
         + (IF text[Len(text)] = "1" THEN 1 ELSE 0)

\* ---------------------------------------------------------------------------
\* Properties
\* ---------------------------------------------------------------------------
\* C1: after a cycle whose handler returned, pc is the address of the
\* instruction plus its operand count plus one when the opcode is one of LDI,
\* HLT, PRN, MUL, ADD, PUSH, POP, CMP (bit 4 clear), and it is exactly the
\* value the handler left in pc when the opcode is one of CALL, RET, JEQ, JNE,
\* JMP (bit 4 set): the loop adds nothing to it.
C1_PcPolicy ==
    LastDone =>
        IF last.op \in PcSetters
        THEN /\ pc = last.hpc
             /\ (last.op = "JMP" => pc = RegAt(last.reg, last.a))
        ELSE pc = last.at + OperandCount[last.op] + 1

\* A jump was taken right after an instruction the loop advanced over.
C1_Witness ==
    /\ LastTwoDone
    /\ prev.op = "CMP" /\ last.at = prev.at + 3
    /\ last.op = "JNE" /\ pc = RegAt(last.reg, last.a) /\ pc # last.at + 2

\* C2: PUSH r immediately followed by POP r, r in 0..7, leaves Register[r] and
\* the stack pointer Register[7] as they were before the PUSH.
C2_PushPopRoundTrip ==
    (/\ LastTwoDone
     /\ prev.op = "PUSH" /\ last.op = "POP"
     /\ prev.a \in 0..(NumRegs - 1) /\ last.a = prev.a)
    => /\ reg[last.a] = prev.reg[prev.a]
       /\ reg[sp] = prev.reg[sp]

\* The round trip through the stack pointer register itself.
C2_Witness ==
    /\ LastTwoDone
    /\ prev.op = "PUSH" /\ last.op = "POP"
    /\ prev.a = sp /\ last.a = sp
    /\ reg[sp] = StackStart

\* C3: CALL at address p immediately followed by the RET at its target leaves
\* pc = p + 2 and the stack pointer as it was before the CALL.
C3_CallRetRoundTrip ==
    (/\ LastTwoDone
     /\ prev.op = "CALL" /\ last.op = "RET")
    => /\ pc = prev.at + 2
       /\ reg[sp] = prev.reg[sp]

C3_Witness ==
    /\ LastTwoDone
    /\ prev.op = "CALL" /\ last.op = "RET"
    /\ last.at = RegAt(prev.reg, prev.a)
    /\ last.at # prev.at + 2

\* C4: CMP sets the flags to exactly 0b010 when Register[operand1] >
\* Register[operand2], 0b100 when it is less, 0b001 when they are equal, and
\* changes no register.
C4_CmpFlags ==
    (LastDone /\ last.op = "CMP")
    => LET a == RegAt(last.reg, last.a)
           b == RegAt(last.reg, last.b)
       IN /\ (a > b => fl = 2)
          /\ (a < b => fl = 4)
          /\ (a = b => fl = 1)
          /\ reg = last.reg

\* The first compare of a run, of a greater with a smaller value.
C4_Witness ==
    /\ LastDone
    /\ last.op = "CMP"
    /\ RegAt(last.reg, last.a) > RegAt(last.reg, last.b)
    /\ last.fl = 0 /\ fl = 2

\* C5: JEQ executed immediately after a CMP jumps to Register[operand1] when
\* the CMP set the flags to 0b001, and moves pc to the JEQ address plus 2
\* when the CMP set them to 0b010 or 0b100.
C5_JeqAfterCmp ==
    (/\ LastTwoDone
     /\ prev.op = "CMP" /\ last.op = "JEQ")
    => /\ last.fl \in {1, 2, 4}
       /\ (last.fl = 1 => pc = RegAt(last.reg, last.a))
       /\ (last.fl \in {2, 4} => pc = last.at + 2)

\* A JEQ that did not jump although its target differs from the next address.
C5_Witness ==
    /\ LastTwoDone
    /\ prev.op = "CMP" /\ last.op = "JEQ"
    /\ last.fl = 4 /\ pc = last.at + 2
    /\ RegAt(last.reg, last.a) # last.at + 2

\* C6: in every reachable state JEQ jumps to Register[operand1] if the equal
\* flag (bit 0 of the flags) is set, and otherwise advances pc by 2.
C6_JeqTestsEqualBit ==
    (LastDone /\ last.op = "JEQ")
    => IF last.fl % 2 = 1
       THEN pc = RegAt(last.reg, last.a)
       ELSE pc = last.at + 2

\* C7: in every reachable state JNE jumps to Register[operand1] if the equal
\* flag (bit 0 of the flags) is clear, and otherwise advances pc by 2.
C7_JneTestsEqualBit ==
    (LastDone /\ last.op = "JNE")
    => IF last.fl % 2 = 0
       THEN pc = RegAt(last.reg, last.a)
       ELSE pc = last.at + 2

\* The memory holds the image of MulProgram, loaded at address 0.
RunsMulProgram == \A i \in 1..Len(MulProgram) : ram[i - 1] = MulProgram[i]

\* C8: the run of LDI R0,8; LDI R1,9; MUL R0,R1; PRN R0; HLT raises nothing,
\* prints nothing but 72, and when it ends at the HLT exactly one value, 72,
\* has been printed and working is false.
C8_MulProgramPrints72 ==
    RunsMulProgram =>
        /\ out \in {<<>>, <<72>>}
        /\ (pc < Len(MulProgram) => phase \in {"idle", "running"} /\ exc = NoExc)
        /\ (phase = "idle" /\ last.op = "HLT" =>
                out = <<72>> /\ ~working /\ pc = Len(MulProgram) /\ exc = NoExc)

C8_Witness ==
    /\ RunsMulProgram
    /\ phase = "idle" /\ last.op = "HLT" /\ prev.op = "PRN"
    /\ out = <<72>> /\ ~working

\* C9: a cycle that fetches a value that is no opcode of the dispatch table
\* raises the "Unsupported operation" exception carrying that value in binary
\* (eight digits for a byte) and changes neither registers, memory, flags, pc
\* nor the output; and once run() has raised, nothing is executed any more.
C9_UnsupportedOpcode ==
    [][/\ (/\ phase = "running"
           /\ ValidIdx(pc, RamSize)
           /\ ram[Norm(pc, RamSize)] \notin DOMAIN instruction_table)
          => /\ phase' = "run_raised"
             /\ exc'.type = "Exception"
             /\ exc'.text = "Unsupported operation: "
             /\ ParseBin(exc'.arg) = ram[Norm(pc, RamSize)]
             /\ (ram[Norm(pc, RamSize)] \in 0..255 => Len(exc'.arg) = 8)
             /\ UNCHANGED <<reg, ram, fl, pc, out, working>>
       /\ (phase = "run_raised" => UNCHANGED vars)]_vars

\* A byte other than 0 that is no opcode was fetched: the run ended there.
C9_Witness ==
    /\ phase = "run_raised"
    /\ last.op = "undecodable" /\ last.ir \in 1..255
    /\ exc.arg = Format08b(last.ir) /\ pc = last.at

\* C10: load() of a program longer than the memory prints the warning and
\* completes without raising.
C10_OversizeLoadCompletes ==
    warned => phase # "load_raised"

\* C11: register arithmetic is modulo 256: after ADD (MUL) Register[operand1]
\* is the sum (product) of the two operand registers modulo 256, and every
\* register holds a value in 0..255 in every reachable state.
C11_ArithmeticMod256 ==
    /\ (LastDone /\ last.op = "ADD" =>
            RegAt(reg, last.a) = (RegAt(last.reg, last.a) + RegAt(last.reg, last.b)) % 256)
    /\ (LastDone /\ last.op = "MUL" =>
            RegAt(reg, last.a) = (RegAt(last.reg, last.a) * RegAt(last.reg, last.b)) % 256)
    /\ \A i \in 0..(NumRegs - 1) : reg[i] \in 0..255

\* C12: working is false in the initial state, turns true only by run(), and
\* turns false only in a cycle that executes HLT (no other instruction and no
\* exception clears it).
C12_WorkingLifecycle ==
    /\ ~working
    /\ [][/\ (~working /\ working' =>
                 phase \in {"constructed", "idle"} /\ phase' = "running")
          /\ (working /\ ~working' =>
                 phase = "running" /\ phase' = "idle" /\ last'.ok /\ last'.op = "HLT")]_vars

\* A run was started and stopped by a HLT.
C12_Witness ==
    /\ ~working /\ phase = "idle"
    /\ last.ok /\ last.op = "HLT" /\ prev.ok /\ prev.op \in Mnemonics

\* C13 as stated, every call of run() eventually ends, in the form a finite
\* run refutes: the loop is deterministic, so a run that ends never reaches a
\* state that its next cycle leaves exactly as it is.
C13_RunEnds ==
    phase = "running" => LoopBody(CpuState) # CpuState

\* C13 as amended: run() ends only in a cycle that executes HLT, which leaves
\* it stopped, or in a cycle that raises; every other cycle leaves the loop
\* running.
C13_RunEndsOnlyByHaltOrError ==
    [][phase = "running" =>
          \/ phase' = "idle" /\ ~working' /\ last'.ok /\ last'.op = "HLT"
          \/ phase' = "run_raised" /\ ~last'.ok /\ exc' # NoExc
          \/ phase' = "running" /\ working' /\ last'.ok /\ last'.op \in Mnemonics \ {"HLT"}]_vars

\* A JMP to its own address was executed twice: the next cycle repeats it.
C13_Witness ==
    /\ phase = "running" /\ working
    /\ last.ok /\ last.op = "JMP" /\ prev = last
    /\ pc = last.at /\ reg = last.reg


\* ---------------------------------------------------------------------------
\* C14: in every reachable state each of the 256 memory cells holds a value in
\* 0..255.
\* ---------------------------------------------------------------------------
C14_MemoryCellsAreBytes ==
    \A i \in 0..(RamSize - 1) : ram[i] \in 0..255


\* ---------------------------------------------------------------------------
\* C15: the flags register changes only in a cycle that executes CMP; every
\* cycle executing another instruction, run() itself and load() leave it as it
\* is.
\* ---------------------------------------------------------------------------
C15_FlagsChangeOnlyInCmp ==
    [][/\ fl' # fl => phase = "running" /\ last'.op = "CMP" /\ last'.ok
       /\ phase = "running" /\ last'.op # "CMP" => fl' = fl]_vars

\* A CMP set the flags from 0 and the ADD after it left them set.
C15_Witness ==
    /\ LastTwoDone
    /\ prev.op = "CMP" /\ prev.fl = 0
    /\ last.op = "ADD" /\ last.fl # 0
    /\ fl = last.fl


\* ---------------------------------------------------------------------------
\* C16: while run() executes, memory is written only by PUSH and CALL.  A PUSH
\* or CALL that completes moves the stack pointer down by 1 and writes exactly
\* one cell, the one the moved stack pointer addresses (a stack pointer below 0
\* addresses modulo 256, as Python's index does): PUSH stores the operand
\* register, CALL the address after its operand.  One that raises changes at
\* most that cell.  A cycle executing anything else leaves all cells unchanged.
\* ---------------------------------------------------------------------------
C16_MemoryWrittenOnlyByPushAndCall ==
    [][phase = "running" =>
         /\ last'.op \notin {"PUSH", "CALL"} => ram' = ram
         /\ last'.op \in {"PUSH", "CALL"} /\ last'.ok =>
              /\ reg'[sp] = reg[sp] - 1
              /\ \A i \in 0..(RamSize - 1) :
                     i # Norm(reg'[sp], RamSize) => ram'[i] = ram[i]
              /\ ram'[Norm(reg'[sp], RamSize)] =
                     IF last'.op = "PUSH" THEN RegAt(reg', last'.a) ELSE pc + 2
         /\ last'.op \in {"PUSH", "CALL"} /\ ~last'.ok =>
              \A i \in 0..(RamSize - 1) :
                  ram'[i] # ram[i] =>
                      ValidIdx(reg[sp] - 1, RamSize) /\ i = Norm(reg[sp] - 1, RamSize)]_vars

\* A PUSH stored a non-zero register in the cell below the old stack pointer.
C16_Witness ==
    /\ LastDone
    /\ last.op = "PUSH"
    /\ reg[sp] = last.reg[sp] - 1
    /\ ValidIdx(reg[sp], RamSize)
    /\ ram[Norm(reg[sp], RamSize)] = RegAt(last.reg, last.a)
    /\ ram[Norm(reg[sp], RamSize)] # 0


\* ---------------------------------------------------------------------------
\* C17: a cycle that executes HLT at address p ends the run at once: the CPU is
\* stopped with working false and pc = p + 1, and registers, memory, flags and
\* output are as before the HLT; nothing is fetched while it is stopped; a
\* later run() starts from that very state, and its first cycle, like every
\* cycle, fetches at the pc it finds, p + 1.
\* ---------------------------------------------------------------------------
C17_HltStopsAndRunResumes ==
    [][/\ phase = "running" /\ last'.op = "HLT" =>
              /\ last'.ok /\ last'.at = pc
              /\ phase' = "idle" /\ ~working'
              /\ pc' = pc + 1
              /\ reg' = reg /\ ram' = ram /\ fl' = fl /\ out' = out
       /\ phase = "idle" => last' = last /\ prev' = prev /\ pc' = pc
       /\ phase = "idle" /\ phase' = "running" =>
              working' /\ reg' = reg /\ ram' = ram /\ fl' = fl /\ out' = out
       /\ phase = "running" => last'.at = pc /\ last'.reg = reg /\ last'.fl = fl]_vars

\* A second run() went on with the instruction after the HLT that ended the
\* first, on the registers the first run left.
C17_Witness ==
    /\ LastTwoDone
    /\ prev.op = "HLT"
    /\ last.op = "PRN"
    /\ last.at = prev.at + 1
    /\ last.reg = prev.reg /\ last.fl = prev.fl
    /\ last.reg[0] # 0


\* ---------------------------------------------------------------------------
\* C18: load() of a list of n <= 256 bytes sets Memory[i] to the i-th byte for
\* every i < n, leaves Memory[i] as it was for every i >= n, and leaves the
\* registers, pc, flags and working unchanged; it returns normally.
\* ---------------------------------------------------------------------------
C18_LoadFrame ==
    [][(phase \in {"constructed", "idle"} /\ phase' # "running" /\ Len(image') <= RamSize) =>
         /\ \A i \in 0..(RamSize - 1) :
                ram'[i] = IF i < Len(image') THEN image'[i + 1] ELSE ram[i]
         /\ reg' = reg /\ pc' = pc /\ fl' = fl /\ working' = working
         /\ phase' = "idle" /\ exc' = NoExc]_vars

\* CallProgram was loaded over MulProgram after MulProgram ran: the cells after
\* the new image still hold the end of MulProgram, and registers and pc are
\* those the run left.
C18_Witness ==
    /\ phase = "idle" /\ ~working
    /\ image = CallProgram
    /\ \A i \in 0..(Len(CallProgram) - 1) : ram[i] = CallProgram[i + 1]
    /\ \A i \in Len(CallProgram)..(Len(MulProgram) - 1) : ram[i] = MulProgram[i + 1]
    /\ pc = Len(MulProgram)
    /\ reg[0] = 72 /\ reg[sp] = StackStart


\* ---------------------------------------------------------------------------
\* C19: the stack is last-in-first-out and grows down from 0xF4.  As long as
\* only PUSH and POP have moved the stack pointer, none of them named R7 and no
\* POP found the stack empty (shadow.ok), after every instruction
\* Register[7] = 0xF4 - (PUSHes - POPs), the values pushed and not yet popped
\* lie in the cells 0xF3, 0xF2, ... in the order they were pushed (the first
\* PUSH wrote 0xF3), and a POP has loaded the value of the most recent PUSH not
\* yet popped.
\* ---------------------------------------------------------------------------
C19_StackIsLifo ==
    shadow.ok =>
        /\ reg[sp] = StackStart - Len(shadow.vals)
        /\ \A k \in 1..Len(shadow.vals) : ram[StackStart - k] = shadow.vals[k]
        /\ last.op = "POP" => RegAt(reg, last.a) = shadow.popped

\* Two values pushed and popped again: the second POP loaded the value pushed
\* first, and the stack pointer is back at 0xF4.
C19_Witness ==
    /\ shadow.ok /\ shadow.vals = <<>>
    /\ LastTwoDone
    /\ prev.op = "POP" /\ last.op = "POP"
    /\ shadow.popped = 1 /\ reg[1] = 1 /\ reg[0] = 2
    /\ ram[StackStart - 1] = 1 /\ ram[StackStart - 2] = 2
    /\ reg[sp] = StackStart


\* ---------------------------------------------------------------------------
\* C20: in every reachable state the flags register holds 0 or exactly one of
\* the encodings 0b001, 0b010, 0b100; no two flag bits are set at once.
\* ---------------------------------------------------------------------------
C20_FlagsOneHot ==
    fl \in {0, FL_E, FL_G, FL_L}

\* A second CMP replaced the less flag of the first by the greater flag.
C20_Witness ==
    /\ LastDone
    /\ last.op = "CMP"
    /\ last.fl = FL_L
    /\ fl = FL_G

====
